---- MODULE Spec2Model ----
(***************************************************************************)
(* Model of the guarded patch-application engine of src/openaiClient.js:   *)
(* the panel authentication, the per-file lock (withFileLock), the backup  *)
(* manager, the two orchestrated operations POST /apply-fix and            *)
(* POST /apply-proposal, and the advisory POST /auto-apply-decision.       *)
(*                                                                         *)
(* The program runs on a single-threaded event loop: a handler runs        *)
(* without interruption from one await to the next, so every action below  *)
(* is the code between two awaits.  Texts are sequences of tokens (a token *)
(* is a piece of text such as a marker, a word, "." or "(", and "\n" is a  *)
(* line break); fs calls may throw; event-store calls may fail.            *)
(***************************************************************************)
EXTENDS Integers, Sequences, FiniteSets, TLC

\* Number of requests the clients send in one run.
MaxReq == 2

Requests == 1..MaxReq

\* Longest text, in tokens, given to generateSemanticDiff on its own.
MaxLen == 3

\* Longest tool and message, in tokens, given to buildSignature on its own.
MaxSigLen == 2

\* Longest text, in tokens, given to the fixer on its own.
MaxFixLen == 6

\* Longest text before and after the marker, in tokens, given to the splice
\* on its own.
MaxPartLen == 2

\* JavaScript's undefined: a JSON field or a header that is absent.
Undefined == "<undefined>"

\* ---------------------------------------------------------------- config
FILE_ALLOWLIST == {"index.js"}

FIX_ALLOWLIST == {"replace_single_with_maybeSingle"}

\* 0.85, in hundredths
AUTO_APPLY_CONFIDENCE_THRESHOLD == 85

\* The markers, each one token of the text.
INSERTION_ZONES ==
  [routes |-> [marker |-> "/* ROUTES */"], helpers |-> [marker |-> "/* HELPERS */"]]

\* INSERTION_ZONES is an object literal: INSERTION_ZONES[zone] also finds the
\* members inherited from Object.prototype, which are truthy and have no marker.
ObjectPrototypeKeys == {"constructor"}

ZoneLookupTruthy(zone) ==
  zone \in DOMAIN INSERTION_ZONES \/ zone \in ObjectPrototypeKeys

ZoneMarker(zone) ==
  IF zone \in DOMAIN INSERTION_ZONES THEN INSERTION_ZONES[zone].marker ELSE Undefined

\* ---------------------------------------------------------------- inputs
\* The x-panel-token header: absent, the configured token, another one.
Headers == {Undefined, "tok", "bad"}

\* proposedCode: a text with blanks around it, and one containing the separator
ProposedCodes == {<<" ", "c", " ">>, <<"c", "|", "c">>}

Intents == {<<"i">>, <<"i", "|", "c">>}

\* The content index.js may have when the program starts.
InitialContents ==
  {<<"/* ROUTES */", ".", "single", "(">>, <<"undefined", "x">>}

NoBody ==
  [targetFile |-> Undefined, fixType |-> Undefined, mode |-> Undefined,
   zone |-> Undefined, proposedCode |-> <<>>, intent |-> <<>>,
   tool |-> Undefined, message |-> Undefined]

\* The bodies sent to POST /apply-fix: the well-formed ones, and one with
\* each field missing or refused.
OneFix ==
  [NoBody EXCEPT !.targetFile = "index.js",
                 !.fixType = "replace_single_with_maybeSingle", !.mode = "apply"]

FixBodies ==
  {[OneFix EXCEPT !.mode = m] : m \in {Undefined, "dry-run", "apply", "force"}}
  \cup {[OneFix EXCEPT !.targetFile = f] : f \in {Undefined, "other.js"}}
  \cup {[OneFix EXCEPT !.fixType = t] : t \in {Undefined, "rm_rf"}}

\* The bodies sent to POST /apply-proposal, likewise.
OneProposal ==
  [NoBody EXCEPT !.targetFile = "index.js", !.zone = "routes",
                 !.proposedCode = <<"c", "|", "c">>, !.intent = <<"i">>,
                 !.mode = "apply"]

ProposalBodies ==
  {[OneProposal EXCEPT !.proposedCode = c, !.intent = i, !.mode = m] :
     c \in ProposedCodes, i \in Intents, m \in {Undefined, "dry-run", "apply"}}
  \cup {[OneProposal EXCEPT !.zone = z] : z \in {"helpers", "constructor"}}
  \cup {[OneProposal EXCEPT !.targetFile = f] : f \in {Undefined, "other.js"}}
  \cup {[OneProposal EXCEPT !.zone = z] : z \in {Undefined, "nowhere"}}
  \cup {[OneProposal EXCEPT !.proposedCode = <<>>], [OneProposal EXCEPT !.intent = <<>>],
        [OneProposal EXCEPT !.mode = "force"]}

\* The bodies sent to POST /auto-apply-decision.
OneDecision ==
  [NoBody EXCEPT !.tool = "t", !.message = "m",
                 !.fixType = "replace_single_with_maybeSingle"]

DecisionBodies ==
  {[OneDecision EXCEPT !.fixType = t, !.targetFile = f] :
     t \in {"replace_single_with_maybeSingle", "rm_rf"},
     f \in {Undefined, "index.js", "other.js"}}
  \cup {[OneDecision EXCEPT !.tool = Undefined], [OneDecision EXCEPT !.message = Undefined],
        [OneDecision EXCEPT !.fixType = Undefined]}

\* The requests the clients send, each with any of the headers.
FixRequests == {[hdr |-> h, body |-> b] : h \in Headers, b \in FixBodies}

ProposalRequests == {[hdr |-> h, body |-> b] : h \in Headers, b \in ProposalBodies}

\* (the decision route reads no header)
DecisionRequests == {[hdr |-> Undefined, body |-> b] : b \in DecisionBodies}

\* ---------------------------------------------------------------- helpers
RECURSIVE TrimStart(_)
TrimStart(s) ==
  IF s # <<>> /\ Head(s) = " " THEN TrimStart(Tail(s)) ELSE s

RECURSIVE TrimEnd(_)
TrimEnd(s) ==
  IF s # <<>> /\ s[Len(s)] = " " THEN TrimEnd(SubSeq(s, 1, Len(s) - 1)) ELSE s

\* String.prototype.trim
Trim(s) == TrimEnd(TrimStart(s))

\* crypto sha256, taken as collision-free: the digest stands for its input
sha256(str) == <<"sha256">> \o str

\* String.prototype.indexOf on tokens: the 1-based place of the first
\* occurrence, 0 when there is none (JavaScript's -1).  An undefined needle
\* is searched as the text "undefined".
IndexOf(text, needle) ==
  LET n == IF needle = Undefined THEN "undefined" ELSE needle
      hits == {i \in 1..Len(text) : text[i] = n}
  IN IF hits = {} THEN 0 ELSE CHOOSE i \in hits : \A j \in hits : i <= j

\* the text /\.single\(/ matches, and ".maybeSingle(", in tokens
SinglePattern == <<".", "single", "(">>

MaybeSingle == <<".", "maybe", "Single", "(">>

\* (the pattern without its g flag: the first match alone gives way)
RECURSIVE ReplaceFirst(_, _, _)
ReplaceFirst(text, pattern, by) ==
  IF Len(text) < Len(pattern) THEN text
  ELSE IF SubSeq(text, 1, Len(pattern)) = pattern
  THEN by \o SubSeq(text, Len(pattern) + 1, Len(text))
  ELSE <<Head(text)>> \o ReplaceFirst(Tail(text), pattern, by)

\* String.prototype.replace with a global pattern: every match, found from
\* left to right after the end of the match before it, gives way to `by`
RECURSIVE Replace(_, _, _)
Replace(text, pattern, by) ==
  IF Len(text) < Len(pattern) THEN text
  ELSE IF SubSeq(text, 1, Len(pattern)) = pattern
  THEN by \o Replace(SubSeq(text, Len(pattern) + 1, Len(text)), pattern, by)
  ELSE <<Head(text)>> \o Replace(Tail(text), pattern, by)

\* original.replace(/\.single\(/g, ".maybeSingle(")
fix_replace_single_with_maybeSingle(original) ==
  LET updated == Replace(original, SinglePattern, MaybeSingle)
  IN [changed |-> updated # original, updated |-> updated]

runFix(fixType, original) ==
  IF fixType = "replace_single_with_maybeSingle"
  THEN fix_replace_single_with_maybeSingle(original)
  ELSE [changed |-> FALSE, updated |-> original]

\* the text apply-proposal builds: the code after the marker, between blank lines
Splice(original, idx, normalizedCode) ==
  SubSeq(original, 1, idx) \o <<"\n", "\n">> \o normalizedCode
    \o <<"\n", "\n">> \o SubSeq(original, idx + 1, Len(original))

proposalHash(targetFile, zone, intent, normalizedCode) ==
  sha256(<<targetFile, "|", zone, "|">> \o intent \o <<"|">> \o normalizedCode)

fixPatchKey(fixType, targetFile, backupName) ==
  sha256(<<fixType, "|", targetFile, "|">> \o backupName)

\* nowStamp(): the clock's reading, formatted as text
nowStamp(now) == ToString(now)

\* `${base}.${nowStamp()}.bak`
BackupName(base, stamp) == <<base, ".", stamp, ".bak">>

\* String.prototype.split("\n"): the lines of a text, each a text without
\* line breaks; the empty text has one empty line
RECURSIVE Split(_)
Split(text) ==
  LET i == IndexOf(text, "\n")
  IN IF i = 0 THEN <<text>>
     ELSE <<SubSeq(text, 1, i - 1)>> \o Split(SubSeq(text, i + 1, Len(text)))

Max(a, b) == IF a >= b THEN a ELSE b

\* o[i]: the line, undefined past the end of the array
LineAt(lines, i) == IF i <= Len(lines) THEN lines[i] ELSE <<Undefined>>

\* o[i] ?? ""
OrEmpty(line) == IF line = <<Undefined>> THEN <<>> ELSE line

\* (the lines compared after the ?? "", so that a missing line equals an
\* empty one)
generateSemanticDiffPadded(original, updated) ==
  LET o == Split(original)
      u == Split(updated)
      max == Max(Len(o), Len(u))
      all == [i \in 1..max |->
                [line |-> i, before |-> OrEmpty(LineAt(o, i)),
                 after |-> OrEmpty(LineAt(u, i))]]
      Differs(e) == e.before # e.after
  IN SelectSeq(all, Differs)

\* (the entries numbered with the array index, from 0)
generateSemanticDiffZeroBased(original, updated) ==
  LET o == Split(original)
      u == Split(updated)
      max == Max(Len(o), Len(u))
      all == [i \in 1..max |->
                [line |-> i - 1, before |-> OrEmpty(LineAt(o, i)),
                 after |-> OrEmpty(LineAt(u, i))]]
      Differs(e) == LineAt(o, e.line + 1) # LineAt(u, e.line + 1)
  IN SelectSeq(all, Differs)

\* generateSemanticDiff: for every index below the longer line count, in
\* order, an entry when o[i] !== u[i] (the source counts i from 0 and numbers
\* the entry i + 1; here i counts from 1)
generateSemanticDiff(original, updated) ==
  LET o == Split(original)
      u == Split(updated)
      max == Max(Len(o), Len(u))
      all == [i \in 1..max |->
                [line |-> i, before |-> OrEmpty(LineAt(o, i)),
                 after |-> OrEmpty(LineAt(u, i))]]
      Differs(e) == LineAt(o, e.line) # LineAt(u, e.line)
  IN SelectSeq(all, Differs)

\* String.prototype.toLowerCase, on the tokens "A" and "a"
toLowerCase(str) == [i \in 1..Len(str) |-> IF str[i] = "A" THEN "a" ELSE str[i]]

\* String(tool || ""): an absent (or otherwise falsy) field is the empty text
StringOrEmpty(field) == IF field = <<Undefined>> THEN <<>> ELSE field

\* (the fields joined without the lower-casing)
buildSignatureCaseKept(tool, message) ==
  sha256(Trim(StringOrEmpty(tool)) \o <<"|">> \o Trim(StringOrEmpty(message)))

buildSignature(tool, message) ==
  LET raw == toLowerCase(Trim(StringOrEmpty(tool))) \o <<"|">>
               \o toLowerCase(Trim(StringOrEmpty(message)))
  IN sha256(raw)

\* ---------------------------------------------------------------- state
VARIABLES
  PANEL_TOKEN,      \* process.env.PANEL_TOKEN || "", fixed when the process starts
  files,            \* the working directory: file name -> content
  backups,          \* the fix-backups directory: backup name -> content
  fileLocks,        \* the keys of the fileLocks Map (every value is true)
  applied_patches,  \* the rows of the event store's applied_patches table
  clock,            \* the system clock, in milliseconds
  reqs,             \* the requests: where each handler stands, and its locals
  resp,             \* the request whose handler ended in the last step, with the
                    \* response it got; NoResp when no handler ended in it
  writes,           \* history: the writeText calls that changed or rewrote the
                    \* file, in order
  inserted,         \* what tryInsert returned, when the step is the return of
                    \* an insert into the event store: "ok" or "error";
                    \* "none" in every other step
  call              \* the last call of a helper made on its own, with its
                    \* arguments and its result (SpecPure); NoCall in Spec

vars ==
  <<PANEL_TOKEN, files, backups, fileLocks, applied_patches, clock, reqs, resp,
    writes, inserted, call>>

NoLoc ==
  [targetFile |-> Undefined, fixType |-> Undefined, zone |-> Undefined,
   intent |-> <<>>, normalizedCode |-> <<>>, original |-> <<>>,
   updated |-> <<>>, changed |-> FALSE, hash |-> <<>>, backupName |-> <<>>,
   waited |-> FALSE, readAt |-> 0]

\* A request's slot: where its handler stands (pc), the header it came with,
\* the handler's locals (loc, mode), the status it answered with ("" while it
\* has not answered, "threw" when it ended by an exception), and, as history,
\* what it has done: "lock" (took the lock), "read" and "write" (of the
\* target file), "fix" (ran a fixer), "backup", "record" (sent a row to the
\* event store).
Idle ==
  [pc |-> "idle", kind |-> "", hdr |-> Undefined, loc |-> NoLoc,
   mode |-> Undefined, status |-> "", effects |-> {}]

NoResp == [id |-> 0, req |-> Idle, body |-> <<>>]

NoCall == [fn |-> "", args |-> <<>>, result |-> <<>>, run |-> 0]

Init ==
  /\ \/ /\ PANEL_TOKEN = "tok"
        /\ files \in {[f \in {"index.js"} |-> c] : c \in InitialContents} \cup {<<>>}
     \/ /\ PANEL_TOKEN = ""
        /\ files = [f \in {"index.js"} |-> <<"/* ROUTES */", ".", "single", "(">>]
  /\ backups = <<>>
  /\ fileLocks = {}
  /\ applied_patches = <<>>
  /\ clock = 0
  /\ reqs = [r \in Requests |-> Idle]
  /\ resp = NoResp
  /\ writes = <<>>
  /\ inserted = "none"
  /\ call = NoCall

\* ---------------------------------------------------------------- pieces of the handlers
\* (a check that lets a request without the header through)
requirePanelAuthUnlessAbsent(token, got) ==
  IF token = "" THEN "500"
  ELSE IF got # Undefined /\ got # token THEN "401"
  ELSE ""

\* requirePanelAuth: the status it sends, "" when it sends nothing
requirePanelAuth(token, got) ==
  IF token = "" THEN "500"
  ELSE IF got = Undefined \/ got # token THEN "401"
  ELSE ""

\* const { ..., mode = "dry-run" } = req.body
ModeOf(b) == IF b.mode = Undefined THEN "dry-run" ELSE b.mode

\* the checks of POST /apply-fix before the lock: the status sent, "" when all pass
ApplyFixPrecondition(b, fs) ==
  IF b.targetFile = Undefined \/ b.fixType = Undefined THEN "400"
  ELSE IF b.targetFile \notin FILE_ALLOWLIST THEN "403"
  ELSE IF b.fixType \notin FIX_ALLOWLIST THEN "403"
  ELSE IF ModeOf(b) \notin {"dry-run", "apply"} THEN "400"
  ELSE IF b.targetFile \notin DOMAIN fs THEN "404"
  ELSE ""

\* the checks of POST /apply-proposal before the lock
ApplyProposalPrecondition(b, fs) ==
  IF b.targetFile = Undefined \/ b.zone = Undefined
       \/ b.proposedCode = <<>> \/ b.intent = <<>> THEN "400"
  ELSE IF b.targetFile \notin FILE_ALLOWLIST THEN "403"
  ELSE IF ~ZoneLookupTruthy(b.zone) THEN "400"
  ELSE IF ModeOf(b) \notin {"dry-run", "apply"} THEN "400"
  ELSE IF b.targetFile \notin DOMAIN fs THEN "404"
  ELSE ""

\* (a lock check that never finds the lock held)
LockNeverHeld(locks, file) == FALSE

\* (a lock looked up under the path while it is stored under the name)
LockHeldWrongKey(locks, file) == <<"cwd", file>> \in locks

\* while (fileLocks.get(file)): whether the caller has to wait
LockHeld(locks, file) == file \in locks

\* (the release after fn() without the finally: skipped when fn throws)
withFileLockExitNoFinally(locks, file, threw) ==
  IF threw THEN locks ELSE locks \ {file}

\* try { return await fn() } finally { fileLocks.delete(file) }: the lock map
\* once fn has returned or thrown
withFileLockExit(locks, file, threw) == locks \ {file}

\* (a preview check that never matches)
NeverDryRun(mode) == FALSE

\* if (mode === "dry-run") return res.json(...)
IsDryRun(mode) == mode = "dry-run"

\* backupFile: the backups directory after copyFileSync(targetPath, backupPath)
backupFile(fs, bk, targetFile, stamp) ==
  LET name == BackupName(targetFile, stamp)
  IN [n \in DOMAIN bk \cup {name} |-> IF n = name THEN fs[targetFile] ELSE bk[n]]

writeText(fs, targetFile, content) == [fs EXCEPT ![targetFile] = content]

\* (the two calls in the other order: the copy is taken of the new content)
WriteThenBackup(fs, bk, targetFile, updated, stamp) ==
  [backups |-> backupFile(writeText(fs, targetFile, updated), bk, targetFile, stamp),
   files |-> writeText(fs, targetFile, updated)]

\* const backup = backupFile(targetPath); writeText(targetPath, updated);
BackupThenWrite(fs, bk, targetFile, updated, stamp) ==
  [backups |-> backupFile(fs, bk, targetFile, stamp),
   files |-> writeText(fs, targetFile, updated)]

\* (tryInsert without its catch: a failure of the insert is thrown)
tryInsertNoCatch(insertOk) == IF insertOk THEN "ok" ELSE "threw"

\* tryInsert: what the await of it gives, the insert having succeeded or not:
\* "ok" for { ok: true }, "error" for { ok: false, error }; it never throws
tryInsert(insertOk) == IF insertOk THEN "ok" ELSE "error"

\* .from("applied_patches").select("*").eq("patch_key", key).maybeSingle():
\* data is the row when the query succeeds and exactly one row matches
SelectAlready(rows, key, queryOk) ==
  queryOk /\ Cardinality({i \in 1..Len(rows) : rows[i].patch_key = key}) = 1

\* (the threshold compared with <= instead of <)
canAutoApplyAbove(confidenceScore, autoApplicable, fixType, targetFile) ==
  IF ~autoApplicable THEN FALSE
  ELSE IF confidenceScore <= AUTO_APPLY_CONFIDENCE_THRESHOLD THEN FALSE
  ELSE IF fixType \notin FIX_ALLOWLIST THEN FALSE
  ELSE IF targetFile \notin FILE_ALLOWLIST THEN FALSE
  ELSE TRUE

canAutoApply(confidenceScore, autoApplicable, fixType, targetFile) ==
  IF ~autoApplicable THEN FALSE
  ELSE IF confidenceScore < AUTO_APPLY_CONFIDENCE_THRESHOLD THEN FALSE
  ELSE IF fixType \notin FIX_ALLOWLIST THEN FALSE
  ELSE IF targetFile \notin FILE_ALLOWLIST THEN FALSE
  ELSE TRUE

\* (a reasons list that leaves the fix type out)
ReasonsWithoutFixType(confidenceScore, autoApplicable, fixType, targetFile) ==
  (IF ~autoApplicable THEN <<"Not marked auto_applicable">> ELSE <<>>)
  \o (IF confidenceScore < AUTO_APPLY_CONFIDENCE_THRESHOLD
      THEN <<"Confidence < threshold">> ELSE <<>>)
  \o (IF targetFile \notin FILE_ALLOWLIST
      THEN <<"targetFile not allowlisted">> ELSE <<>>)

\* the reasons list of POST /auto-apply-decision
Reasons(confidenceScore, autoApplicable, fixType, targetFile) ==
  (IF ~autoApplicable THEN <<"Not marked auto_applicable">> ELSE <<>>)
  \o (IF confidenceScore < AUTO_APPLY_CONFIDENCE_THRESHOLD
      THEN <<"Confidence < threshold">> ELSE <<>>)
  \o (IF fixType \notin FIX_ALLOWLIST
      THEN <<"fixType not allowlisted">> ELSE <<>>)
  \o (IF targetFile \notin FILE_ALLOWLIST
      THEN <<"targetFile not allowlisted">> ELSE <<>>)

\* ---------------------------------------------------------------- bookkeeping
\* the request q as its handler ends with `status`, having done eff as well
Ended(q, status, eff) ==
  [Idle EXCEPT !.pc = "done", !.kind = q.kind, !.hdr = q.hdr, !.mode = q.mode,
               !.loc.targetFile = q.loc.targetFile, !.loc.fixType = q.loc.fixType,
               !.loc.zone = q.loc.zone, !.loc.hash = q.loc.hash,
               !.status = status, !.effects = q.effects \cup eff]

\* the slot of a request whose handler has ended
Done == [Idle EXCEPT !.pc = "done"]

\* a step in which no handler ends
Silent == resp' = NoResp

\* request r ends as `req`: by res.status(status).json(body), or by an
\* exception (status "threw", and nothing is sent)
Finish(r, req, body) ==
  /\ reqs' = [reqs EXCEPT ![r] = Done]
  /\ resp' = [id |-> r, req |-> req, body |-> body]

\* ---------------------------------------------------------------- requests arrive
\* Requests are numbered as they arrive: r is the next one.
Arrives(r) ==
  /\ reqs[r].pc = "idle"
  /\ \A p \in Requests : p < r => reqs[p].pc # "idle"

\* the slot of request r when its handler starts
Arrived(kind, m) == [Idle EXCEPT !.pc = "start", !.kind = kind, !.hdr = m.hdr]

\* ---------------------------------------------------------------- inside the lock
\* The handler ends inside withFileLock, by a response or by an exception
\* (status "threw": the handler's promise rejects and it sends nothing).
ExitLock(r, q, locks, status, eff, body) ==
  /\ Finish(r, Ended(q, status, eff), body)
  /\ fileLocks' = withFileLockExit(locks, q.loc.targetFile, status = "threw")

\* apply-fix, from fileLocks.set to the first await: readText, runFix,
\* generateSemanticDiff, and the fix_attempts insert is sent
FixEnter(r, q) ==
  \E readOk \in BOOLEAN :
    LET f == q.loc.targetFile
        locks == fileLocks \cup {f}
        original == files[f]
        result == runFix(q.loc.fixType, original)
    IN /\ IF ~readOk
          THEN ExitLock(r, q, locks, "threw", {"lock"}, <<>>)
          ELSE /\ fileLocks' = locks
               /\ reqs' = [reqs EXCEPT ![r] =
                    [q EXCEPT !.pc = "fix_attempts",
                              !.loc.original = original,
                              !.loc.updated = result.updated,
                              !.loc.changed = result.changed,
                              !.loc.readAt = Len(writes),
                              !.effects = @ \cup {"lock", "read", "fix", "record"}]]
               /\ Silent
       /\ UNCHANGED <<call, PANEL_TOKEN, files, backups, applied_patches,
                     clock, writes>>

\* apply-proposal, from fileLocks.set to the first await: readText, the
\* marker search, the splice, the hash, and the code_proposals insert is sent
ProposalEnter(r, q) ==
  \E readOk \in BOOLEAN :
    LET f == q.loc.targetFile
        locks == fileLocks \cup {f}
        original == files[f]
        marker == ZoneMarker(q.loc.zone)
        idx == IndexOf(original, marker)
    IN /\ IF ~readOk
          THEN ExitLock(r, q, locks, "threw", {"lock"}, <<>>)
          ELSE IF idx = 0
          THEN ExitLock(r, q, locks, "400", {"lock", "read"},
                        [error |-> "Insertion marker not found"])
          ELSE IF marker = Undefined
          THEN \* marker.length: TypeError
               ExitLock(r, q, locks, "threw", {"lock", "read"}, <<>>)
          ELSE /\ fileLocks' = locks
               /\ reqs' = [reqs EXCEPT ![r] =
                    [q EXCEPT !.pc = "prop_proposal",
                              !.loc.original = original,
                              !.loc.updated = Splice(original, idx, q.loc.normalizedCode),
                              !.loc.hash = proposalHash(f, q.loc.zone, q.loc.intent,
                                                        q.loc.normalizedCode),
                              !.loc.readAt = Len(writes),
                              !.effects = @ \cup {"lock", "read", "record"}]]
               /\ Silent
       /\ UNCHANGED <<call, PANEL_TOKEN, files, backups, applied_patches,
                     clock, writes>>

\* withFileLock(file, fn), entered with the request's locals q: the caller
\* sleeps while the lock is held, else takes it and runs fn to its first await
withFileLock(r, q) ==
  /\ inserted' = "none"
  /\ IF LockHeld(fileLocks, q.loc.targetFile)
     THEN /\ reqs' = [reqs EXCEPT ![r] =
               [q EXCEPT !.pc = "waiting", !.loc.waited = TRUE]]
          /\ UNCHANGED <<call, PANEL_TOKEN, files, backups, fileLocks,
                        applied_patches, clock, writes>>
          /\ Silent
     ELSE IF q.kind = "fix" THEN FixEnter(r, q) ELSE ProposalEnter(r, q)

\* a request ends before the lock, with a response
Reject(r, q, status) ==
  /\ Finish(r, Ended(q, status, {}), <<>>)
  /\ inserted' = "none"
  /\ UNCHANGED <<call, PANEL_TOKEN, files, backups, fileLocks,
                applied_patches, clock, writes>>

\* ---------------------------------------------------------------- POST /apply-fix
ApplyFix(r) ==
  /\ Arrives(r)
  /\ \E m \in FixRequests :
       LET b == m.body
           q == Arrived("fix", m)
           auth == requirePanelAuth(PANEL_TOKEN, m.hdr)
           pre == ApplyFixPrecondition(b, files)
       IN IF auth # "" THEN Reject(r, q, auth)
          ELSE IF pre # "" THEN Reject(r, [q EXCEPT !.mode = ModeOf(b)], pre)
          ELSE withFileLock(r, [q EXCEPT !.mode = ModeOf(b),
                                         !.loc.targetFile = b.targetFile,
                                         !.loc.fixType = b.fixType])

\* what an apply request asks for: the fix, or the proposal
Asked(q) ==
  IF q.kind = "fix" THEN <<q.loc.targetFile, q.loc.fixType>>
  ELSE <<q.loc.targetFile, q.loc.zone, q.loc.intent, q.loc.normalizedCode>>

\* the entry of the writes history for a writeText by q that left `after`
WriteEntry(q, key, name, after, ok) ==
  [kind |-> q.kind, mode |-> q.mode, file |-> q.loc.targetFile, asked |-> Asked(q),
   key |-> key, basis |-> q.loc.original, readAt |-> q.loc.readAt,
   waited |-> q.loc.waited, before |-> files[q.loc.targetFile], after |-> after,
   backup |-> name, ok |-> ok]

\* the backup and the write of an apply, then the applied_patches insert is
\* sent: backupFile or writeText may throw; a writeText that throws leaves
\* the file as it was or truncated
BackupWriteRecord(r, q, nextPc) ==
  \E now \in {clock, clock + 1}, backupOk \in BOOLEAN,
     wr \in {"written", "unopened", "truncated"} :
    LET f == q.loc.targetFile
        name == BackupName(f, nowStamp(now))
        key == IF q.kind = "fix" THEN fixPatchKey(q.loc.fixType, f, name)
               ELSE q.loc.hash
        done == BackupThenWrite(files, backups, f, q.loc.updated, nowStamp(now))
    IN /\ clock' = now
       /\ IF ~backupOk
          THEN /\ ExitLock(r, q, fileLocks, "threw", {}, <<>>)
               /\ UNCHANGED <<files, backups, writes>>
          ELSE IF wr = "unopened"
          THEN /\ ExitLock(r, q, fileLocks, "threw", {"backup"}, <<>>)
               /\ backups' = done.backups
               /\ UNCHANGED <<files, writes>>
          ELSE IF wr = "truncated"
          THEN /\ ExitLock(r, q, fileLocks, "threw", {"backup", "write"}, <<>>)
               /\ backups' = done.backups
               /\ files' = [files EXCEPT ![f] = <<>>]
               /\ writes' = Append(writes, WriteEntry(q, key, name, <<>>, FALSE))
          ELSE /\ backups' = done.backups
               /\ files' = done.files
               /\ writes' = Append(writes, WriteEntry(q, key, name, done.files[f], TRUE))
               /\ reqs' = [reqs EXCEPT ![r] =
                    [q EXCEPT !.pc = nextPc, !.loc.backupName = name,
                              !.loc.hash = key,
                              !.effects = @ \cup {"backup", "write", "record"}]]
               /\ fileLocks' = fileLocks
               /\ Silent
       /\ UNCHANGED <<call, PANEL_TOKEN, applied_patches>>

\* await of a call that threw: the exception leaves the body of withFileLock
AwaitThrew(r, q) ==
  /\ ExitLock(r, q, fileLocks, "threw", {}, <<>>)
  /\ UNCHANGED <<call, PANEL_TOKEN, files, backups, applied_patches,
                clock, writes>>

\* apply-fix once `await tryInsert("fix_attempts", ...)` has given `result`
\* (the handler does not look at it)
FixAfterAttemptOn(r, result) ==
  LET q == reqs[r]
  IN IF result = "threw" THEN AwaitThrew(r, q)
     ELSE IF IsDryRun(q.mode)
     THEN /\ ExitLock(r, q, fileLocks, "200", {},
                      [mode |-> q.mode, changed |-> q.loc.changed])
          /\ UNCHANGED <<call, PANEL_TOKEN, files, backups, applied_patches,
                        clock, writes>>
     ELSE BackupWriteRecord(r, q, "fix_patch")

\* the fix_attempts insert has returned
FixAfterAttempt(r) ==
  /\ reqs[r].pc = "fix_attempts"
  /\ \E insertOk \in BOOLEAN :
       /\ inserted' = tryInsert(insertOk)
       /\ FixAfterAttemptOn(r, tryInsert(insertOk))

\* the applied_patches insert has returned: tryInsert gives ok or an error,
\* and the handler responds either way
AfterPatch(r, patchType) ==
  \E insertOk \in BOOLEAN :
    LET q == reqs[r]
        result == tryInsert(insertOk)
    IN /\ inserted' = result
       /\ IF result = "threw" THEN AwaitThrew(r, q)
          ELSE /\ applied_patches' =
                    IF result = "ok"
                    THEN Append(applied_patches,
                           [patch_key |-> q.loc.hash, patch_type |-> patchType,
                            backup_name |-> q.loc.backupName])
                    ELSE applied_patches
               /\ ExitLock(r, q, fileLocks, "200", {},
                           [applied |-> TRUE, backup |-> q.loc.backupName])
               /\ UNCHANGED <<call, PANEL_TOKEN, files, backups,
                             clock, writes>>

FixAfterPatch(r) ==
  /\ reqs[r].pc = "fix_patch"
  /\ AfterPatch(r, "fix")

\* ---------------------------------------------------------------- POST /apply-proposal
ApplyProposal(r) ==
  /\ Arrives(r)
  /\ \E m \in ProposalRequests :
       LET b == m.body
           q == Arrived("proposal", m)
           auth == requirePanelAuth(PANEL_TOKEN, m.hdr)
           pre == ApplyProposalPrecondition(b, files)
       IN IF auth # "" THEN Reject(r, q, auth)
          ELSE IF pre # "" THEN Reject(r, [q EXCEPT !.mode = ModeOf(b)], pre)
          ELSE withFileLock(r, [q EXCEPT !.mode = ModeOf(b),
                                         !.loc.targetFile = b.targetFile,
                                         !.loc.zone = b.zone,
                                         !.loc.intent = b.intent,
                                         !.loc.normalizedCode = Trim(b.proposedCode)])

\* apply-proposal once `await tryInsert("code_proposals", ...)` has given
\* `result`: the file_snapshots insert is sent
ProposalAfterProposalOn(r, result) ==
  IF result = "threw" THEN AwaitThrew(r, reqs[r])
  ELSE /\ reqs' = [reqs EXCEPT ![r].pc = "prop_snapshot"]
       /\ UNCHANGED <<call, PANEL_TOKEN, files, backups, fileLocks,
                     applied_patches, clock, writes>>
       /\ Silent

\* the code_proposals insert has returned
ProposalAfterProposal(r) ==
  /\ reqs[r].pc = "prop_proposal"
  /\ \E insertOk \in BOOLEAN :
       /\ inserted' = tryInsert(insertOk)
       /\ ProposalAfterProposalOn(r, tryInsert(insertOk))

\* apply-proposal once `await tryInsert("file_snapshots", ...)` has given
\* `result`: a preview responds, an apply sends the applied_patches query
ProposalAfterSnapshotOn(r, result) ==
  LET q == reqs[r]
  IN IF result = "threw" THEN AwaitThrew(r, q)
     ELSE IF IsDryRun(q.mode)
     THEN /\ ExitLock(r, q, fileLocks, "200", {},
                      [mode |-> "dry-run", proposalHash |-> q.loc.hash])
          /\ UNCHANGED <<call, PANEL_TOKEN, files, backups, applied_patches,
                        clock, writes>>
     ELSE /\ reqs' = [reqs EXCEPT ![r].pc = "prop_select"]
          /\ UNCHANGED <<call, PANEL_TOKEN, files, backups, fileLocks,
                        applied_patches, clock, writes>>
          /\ Silent

\* the file_snapshots insert has returned
ProposalAfterSnapshot(r) ==
  /\ reqs[r].pc = "prop_snapshot"
  /\ \E insertOk \in BOOLEAN :
       /\ inserted' = tryInsert(insertOk)
       /\ ProposalAfterSnapshotOn(r, tryInsert(insertOk))

\* the applied_patches query has returned
ProposalAfterSelect(r) ==
  /\ reqs[r].pc = "prop_select"
  /\ inserted' = "none"
  /\ \E queryOk \in BOOLEAN :
       LET q == reqs[r]
       IN IF SelectAlready(applied_patches, q.loc.hash, queryOk)
          THEN /\ ExitLock(r, q, fileLocks, "409", {}, [proposalHash |-> q.loc.hash])
               /\ UNCHANGED <<call, PANEL_TOKEN, files, backups, applied_patches,
                             clock, writes>>
          ELSE BackupWriteRecord(r, q, "prop_patch")

ProposalAfterPatch(r) ==
  /\ reqs[r].pc = "prop_patch"
  /\ AfterPatch(r, "proposal")

\* ---------------------------------------------------------------- the waiters
\* a sleeper's timer fires and it finds the lock free (finding it held, it
\* sleeps again and nothing changes)
Poll(r) ==
  /\ reqs[r].pc = "waiting"
  /\ ~LockHeld(fileLocks, reqs[r].loc.targetFile)
  /\ withFileLock(r, reqs[r])

\* ---------------------------------------------------------------- POST /auto-apply-decision
Scores == {0, 84, 85}

AutoDecision(r) ==
  /\ Arrives(r)
  /\ \E m \in DecisionRequests :
       LET b == m.body
           q == Arrived("decision", m)
       IN IF b.tool = Undefined \/ b.message = Undefined \/ b.fixType = Undefined
          THEN Reject(r, q, "400")
          ELSE /\ reqs' = [reqs EXCEPT ![r] =
                    [q EXCEPT !.pc = "dec_select",
                              !.loc.fixType = b.fixType,
                              !.loc.targetFile =
                                IF b.targetFile = Undefined THEN "index.js"
                                ELSE b.targetFile]]
               /\ inserted' = "none"
               /\ UNCHANGED <<call, PANEL_TOKEN, files, backups, fileLocks,
                             applied_patches, clock, writes>>
               /\ Silent

\* (a decision that runs the fixer on the file itself)
AutoDecisionRespondAndApply(r) ==
  /\ reqs[r].pc = "dec_select"
  /\ inserted' = "none"
  /\ Finish(r, Ended(reqs[r], "200", {}), [decision |-> "yes"])
  /\ files' = [f \in DOMAIN files |-> runFix(reqs[r].loc.fixType, files[f]).updated]
  /\ UNCHANGED <<call, PANEL_TOKEN, backups, fileLocks, applied_patches,
                clock, writes>>

\* the verified_solutions query has returned: an error, no row, or a row
\* (confidence_score in hundredths, null read as 0; auto_applicable as stored)
AutoDecisionRespond(r) ==
  /\ reqs[r].pc = "dec_select"
  /\ inserted' = "none"
  /\ LET q == reqs[r]
     IN \/ Finish(r, Ended(q, "500", {}), <<>>)
        \/ Finish(r, Ended(q, "200", {}), [decision |-> "no"])
        \/ \E confidenceScore \in Scores, auto_applicable \in {"true", "false", "null"} :
             LET autoApplicable == auto_applicable = "true"
                 decision == canAutoApply(confidenceScore, autoApplicable,
                                          q.loc.fixType, q.loc.targetFile)
                 reasons == Reasons(confidenceScore, autoApplicable,
                                    q.loc.fixType, q.loc.targetFile)
             IN Finish(r, Ended(q, "200", {}),
                     [decision |-> IF decision THEN "yes" ELSE "no",
                      confidenceScore |-> confidenceScore,
                      autoApplicable |-> autoApplicable,
                      fixType |-> q.loc.fixType,
                      targetFile |-> q.loc.targetFile,
                      explanation |-> IF decision THEN <<"All criteria satisfied.">>
                                      ELSE reasons])
  /\ UNCHANGED <<call, PANEL_TOKEN, files, backups, fileLocks,
                applied_patches, clock, writes>>

\* ---------------------------------------------------------------- GET /introspect-app
\* The handler has no await: it lists the working directory, reads every
\* allowlisted file in it with readText, looks for the markers and responds.
\* It checks no token and takes no lock.
IntrospectApp(r) ==
  /\ Arrives(r)
  /\ inserted' = "none"
  /\ \E readOk \in BOOLEAN :
       LET q == Arrived("introspect", [hdr |-> Undefined])
           allowlisted == DOMAIN files \cap FILE_ALLOWLIST
           found(txt) == {z \in DOMAIN INSERTION_ZONES :
                           IndexOf(txt, INSERTION_ZONES[z].marker) # 0}
       IN IF allowlisted = {}
          THEN Finish(r, Ended(q, "200", {}), [allowlisted |-> {}])
          ELSE IF ~readOk
          THEN Finish(r, Ended(q, "threw", {}), <<>>)
          ELSE LET f == CHOOSE f \in allowlisted : TRUE
               IN Finish(r, Ended([q EXCEPT !.loc.targetFile = f], "200", {"read"}),
                         [allowlisted |->
                            {[file |-> f, markers |-> found(files[f])]}])
  /\ UNCHANGED <<call, PANEL_TOKEN, files, backups, fileLocks,
                applied_patches, clock, writes>>

\* ---------------------------------------------------------------- specification
Next ==
  \E r \in Requests :
    \/ ApplyFix(r)
    \/ FixAfterAttempt(r)
    \/ FixAfterPatch(r)
    \/ ApplyProposal(r)
    \/ ProposalAfterProposal(r)
    \/ ProposalAfterSnapshot(r)
    \/ ProposalAfterSelect(r)
    \/ ProposalAfterPatch(r)
    \/ Poll(r)
    \/ AutoDecision(r)
    \/ AutoDecisionRespond(r)
    \/ IntrospectApp(r)

Spec == Init /\ [][Next]_vars

\* ---------------------------------------------------------------- fair scheduling
\* Every call of the event store returns: a handler at an await of one takes
\* its next step.  A sleeper's timer (setTimeout(r, 80)) keeps firing: a
\* waiter that would find the lock free at every firing takes it.  Requests
\* arrive or not, as the clients please.
EventStoreReturns(r) ==
  /\ WF_vars(FixAfterAttempt(r))
  /\ WF_vars(FixAfterPatch(r))
  /\ WF_vars(ProposalAfterProposal(r))
  /\ WF_vars(ProposalAfterSnapshot(r))
  /\ WF_vars(ProposalAfterSelect(r))
  /\ WF_vars(ProposalAfterPatch(r))

WaiterPolls(r) == WF_vars(Poll(r))

SpecFair ==
  Init /\ [][Next]_vars /\ \A r \in Requests : EventStoreReturns(r) /\ WaiterPolls(r)

\* ---------------------------------------------------------------- the helpers on their own
\* The helpers called on their own, with arguments drawn from bounded sets of
\* texts; no request is served.  A run makes one call (and, of the fixer, a
\* second one on the result of the first).
Seqs(tokens, n) == UNION {[1..k -> tokens] : k \in 0..n}

\* texts of lines "a", "b", ...
DiffTexts == Seqs({"a", "b", "\n"}, MaxLen)

\* tool and message: letters in both cases and blanks, or absent
SigFields == Seqs({"A", "a", " "}, MaxSigLen) \cup {<<Undefined>>}

\* tool and message in which the separator of the signature occurs
SepFields == Seqs({"a", "|"}, MaxSigLen)

FixTexts == Seqs({".", "single", "("}, MaxFixLen)

\* contents of the target file in which the routes marker occurs
SpliceTexts ==
  LET parts == Seqs({"x", "\n", INSERTION_ZONES.routes.marker}, MaxPartLen)
  IN {before \o <<INSERTION_ZONES.routes.marker>> \o after :
        before \in parts, after \in parts}

PureInit ==
  /\ PANEL_TOKEN = ""
  /\ files = <<>>
  /\ backups = <<>>
  /\ fileLocks = {}
  /\ applied_patches = <<>>
  /\ clock = 0
  /\ reqs = [r \in Requests |-> Idle]
  /\ resp = NoResp
  /\ writes = <<>>
  /\ inserted = "none"
  /\ call = NoCall

\* the call made, with what it returned; the program's state is left alone
Called(fn, args, result, run) ==
  [fn |-> fn, args |-> args, result |-> result, run |-> run]

CallGenerateSemanticDiff ==
  /\ call = NoCall
  /\ \E original \in DiffTexts, updated \in DiffTexts :
       call' = Called("generateSemanticDiff", <<original, updated>>,
                      generateSemanticDiff(original, updated), 1)
  /\ UNCHANGED <<PANEL_TOKEN, files, backups, fileLocks, applied_patches,
                 clock, reqs, resp, writes, inserted>>

CallBuildSignature ==
  /\ call = NoCall
  /\ \E tool \in SigFields \cup SepFields, message \in SigFields \cup SepFields :
       call' = Called("buildSignature", <<tool, message>>,
                      buildSignature(tool, message), 1)
  /\ UNCHANGED <<PANEL_TOKEN, files, backups, fileLocks, applied_patches,
                 clock, reqs, resp, writes, inserted>>

\* the fixer run on a text ...
CallRunFix ==
  /\ call = NoCall
  /\ \E original \in FixTexts :
       call' = Called("runFix", <<"replace_single_with_maybeSingle", original>>,
                      runFix("replace_single_with_maybeSingle", original), 1)
  /\ UNCHANGED <<PANEL_TOKEN, files, backups, fileLocks, applied_patches,
                 clock, reqs, resp, writes, inserted>>

\* ... and run again on what it returned, as a second apply-fix does on the
\* file the first one has written
CallRunFixAgain ==
  /\ call.fn = "runFix"
  /\ call.run = 1
  /\ call' = Called("runFix", <<call.args[1], call.result.updated>>,
                    runFix(call.args[1], call.result.updated), 2)
  /\ UNCHANGED <<PANEL_TOKEN, files, backups, fileLocks, applied_patches,
                 clock, reqs, resp, writes, inserted>>

\* the updated text of apply-proposal for the zone "routes": the marker is
\* looked up, the code trimmed and spliced in
CallSplice ==
  /\ call = NoCall
  /\ \E original \in SpliceTexts, proposedCode \in ProposedCodes :
       LET marker == ZoneMarker("routes")
           idx == IndexOf(original, marker)
       IN call' = Called("splice", <<original, proposedCode>>,
                         Splice(original, idx, Trim(proposedCode)), 1)
  /\ UNCHANGED <<PANEL_TOKEN, files, backups, fileLocks, applied_patches,
                 clock, reqs, resp, writes, inserted>>

PureNext ==
  \/ CallGenerateSemanticDiff
  \/ CallBuildSignature
  \/ CallRunFix
  \/ CallRunFixAgain
  \/ CallSplice

SpecPure == PureInit /\ [][PureNext]_vars

\* ---------------------------------------------------------------- properties
\* the requests inside the body guarded by withFileLock
InLock(r) ==
  reqs[r].pc \in {"fix_attempts", "fix_patch", "prop_proposal", "prop_snapshot",
                  "prop_select", "prop_patch"}

\* the request that takes the step, when the step is a handler's
Steps(r) == reqs'[r] # reqs[r]

\* C1: a step of apply-fix or apply-proposal that writes the target file (or
\* rewrites it with the same content) has, in the same operation, copied the
\* file to a backup whose content is what the file held just before the
\* write; so when the backup fails the file is not written.
C1_BackupBeforeWrite ==
  [][\A f \in DOMAIN files :
       (files'[f] # files[f] \/ Len(writes') > Len(writes)) =>
         LET e == writes'[Len(writes')]
         IN /\ Len(writes') = Len(writes) + 1
            /\ e.file = f /\ e.before = files[f]
            /\ e.backup = BackupName(f, nowStamp(clock'))
            /\ e.backup \in DOMAIN backups'
            /\ backups'[e.backup] = files[f]
            /\ \E r \in Requests : Steps(r) /\ InLock(r) /\ reqs[r].kind = e.kind]_vars

\* C1 witness: a write that changed the file, its old content in its backup
C1_Witness ==
  \E i \in DOMAIN writes :
    /\ writes[i].ok /\ writes[i].after # writes[i].before
    /\ files[writes[i].file] = writes[i].after
    /\ backups[writes[i].backup] = writes[i].before

\* C2: at most one request is inside the body guarded by withFileLock for a
\* file at any instant, and the file's lock is held while one is; a request
\* that found the lock held is outside the body (it waits) until the holder
\* has left it.
C2_MutualExclusion ==
  /\ \A r1, r2 \in Requests :
       InLock(r1) /\ InLock(r2) /\ reqs[r1].loc.targetFile = reqs[r2].loc.targetFile
         => r1 = r2
  /\ \A r \in Requests : InLock(r) => reqs[r].loc.targetFile \in fileLocks

\* C2 witness: one request inside, after its write, while another waits
C2_Witness ==
  \E r1, r2 \in Requests :
    /\ reqs[r1].pc \in {"fix_patch", "prop_patch"}
    /\ reqs[r2].pc = "waiting"
    /\ reqs[r1].loc.targetFile = reqs[r2].loc.targetFile

\* C3: no update is lost: every write is based on the content the file holds
\* when it is written, no two writes are based on the same state of the file,
\* and the content a write is based on is the content the write before it left.
C3_NoLostUpdate ==
  \A i \in DOMAIN writes :
    /\ writes[i].readAt = i - 1
    /\ writes[i].basis = writes[i].before
    /\ i > 1 => writes[i].basis = writes[i - 1].after

\* C3 witness: two writes that changed the file, the second by a request
\* that arrived while the lock was held
C3_Witness ==
  /\ Len(writes) >= 2
  /\ writes[2].waited /\ writes[1].ok /\ writes[2].ok
  /\ writes[1].after # writes[1].before
  /\ writes[2].after # writes[2].before

\* the kind and the mode of the request r that takes a step
KindOfStep(r) ==
  IF reqs[r].pc # "idle" THEN reqs[r].kind
  ELSE IF reqs'[r].pc = "done" THEN resp'.req.kind ELSE reqs'[r].kind

ModeOfStep(r) ==
  IF reqs[r].pc # "idle" THEN reqs[r].mode
  ELSE IF reqs'[r].pc = "done" THEN resp'.req.mode ELSE reqs'[r].mode

ApplyKinds == {"fix", "proposal"}

\* C4: the same proposal (same targetFile, zone, intent and trimmed code) is
\* written to the target file at most once: of two submissions in apply
\* mode one backs up and writes, the other does neither.
C4_DuplicateApplyGuard ==
  \A i, j \in DOMAIN writes :
    writes[i].kind = "proposal" /\ writes[j].kind = "proposal"
      /\ writes[i].asked = writes[j].asked => i = j

\* C5: no step of an apply-fix or apply-proposal request in mode "dry-run"
\* (given, or defaulted when the request omits mode) changes the target file
\* or the backups, and such a request ends having made no backup and no write.
C5_PreviewPurity ==
  /\ [](resp.req.kind \in ApplyKinds /\ resp.req.mode = "dry-run"
          => resp.req.effects \cap {"backup", "write"} = {})
  /\ [][\A r \in Requests :
          Steps(r) /\ KindOfStep(r) \in ApplyKinds /\ ModeOfStep(r) = "dry-run"
            => UNCHANGED <<files, backups, writes>>]_vars

\* C5 witness: a preview of a fix that would change the file has ended, after
\* another request has written the file
C5_Witness ==
  /\ resp.req.kind = "fix" /\ resp.req.mode = "dry-run" /\ resp.req.status = "200"
  /\ resp.body.changed
  /\ writes # <<>>

\* C6: a file is locked only while a request is inside the body guarded by
\* withFileLock for it: when a request that took the lock ends, by a response
\* or by an exception, the lock is released.
C6_LockReleased ==
  /\ \A f \in fileLocks : \E r \in Requests : InLock(r) /\ reqs[r].loc.targetFile = f
  /\ "lock" \in resp.req.effects => resp.req.loc.targetFile \notin fileLocks

\* C6 witness: a request that took the lock has ended by an exception of the
\* backup or the write, and a waiting request finds the lock free
C6_Witness ==
  /\ resp.req.status = "threw" /\ "read" \in resp.req.effects
  /\ resp.req.mode = "apply"
  /\ fileLocks = {}
  /\ \E r \in Requests : reqs[r].pc = "waiting"

\* the header carries the configured token
ValidToken(hdr) == PANEL_TOKEN # "" /\ hdr # Undefined /\ hdr = PANEL_TOKEN

\* C7: an apply-fix or apply-proposal request without a valid token ends with
\* 500 when no token is configured and with 401 otherwise, in a step that
\* leaves the locks, the files, the backups and the event store as they were,
\* and having done nothing; every request past the check has a valid token.
C7_NoExecutionWithoutToken ==
  /\ [](\A r \in Requests :
          reqs[r].kind \in ApplyKinds /\ reqs[r].pc \notin {"idle", "done"}
            => ValidToken(reqs[r].hdr))
  /\ [](resp.req.kind \in ApplyKinds /\ ~ValidToken(resp.req.hdr)
          => /\ resp.req.status = IF PANEL_TOKEN = "" THEN "500" ELSE "401"
             /\ resp.req.effects = {})
  /\ [][resp'.req.kind \in ApplyKinds /\ ~ValidToken(resp'.req.hdr)
          => UNCHANGED <<files, backups, fileLocks, applied_patches, writes>>]_vars

\* C7 witness: a request without the header is answered 401 while another
\* request holds the lock
C7_Witness ==
  /\ resp.req.kind = "proposal" /\ resp.req.hdr = Undefined /\ resp.req.status = "401"
  /\ fileLocks # {}

\* C8: a request that takes the lock or has any effect has passed every
\* precondition: its target file is allowlisted, its mode is valid, its fix type
\* is allowlisted (apply-fix), its zone is a registered insertion zone
\* (apply-proposal).
PassedPreconditions(q) ==
  /\ q.loc.targetFile \in FILE_ALLOWLIST
  /\ q.mode \in {"dry-run", "apply"}
  /\ q.kind = "fix" => q.loc.fixType \in FIX_ALLOWLIST
  /\ q.kind = "proposal" => q.loc.zone \in DOMAIN INSERTION_ZONES

C8_PreconditionsBeforeLock ==
  /\ \A r \in Requests : InLock(r) => PassedPreconditions(reqs[r])
  /\ resp.req.kind \in ApplyKinds /\ resp.req.effects # {}
       => PassedPreconditions(resp.req)

\* C9: the verdict of canAutoApply is yes exactly when autoApplicable is true,
\* confidenceScore is at least 0.85, fixType is in the fix allowlist and
\* targetFile is in the file allowlist.
C9_CanAutoApplyIff ==
  resp.req.kind = "decision" /\ "confidenceScore" \in DOMAIN resp.body =>
    ((resp.body.decision = "yes") <=>
       /\ resp.body.autoApplicable
       /\ resp.body.confidenceScore >= 85
       /\ resp.body.fixType \in FIX_ALLOWLIST
       /\ resp.body.targetFile \in FILE_ALLOWLIST)

\* C9 witness: a yes at exactly the threshold
C9_Witness ==
  /\ resp.req.kind = "decision" /\ "confidenceScore" \in DOMAIN resp.body
  /\ resp.body.decision = "yes" /\ resp.body.confidenceScore = 85

\* C10: no step of an auto-apply-decision request changes the files, the
\* backups, the locks or the patch records, whatever its verdict; the files
\* and the backups change only in steps of apply-fix and apply-proposal
\* requests in mode "apply".
C10_DecisionAdvisory ==
  /\ [][\A r \in Requests :
          Steps(r) /\ KindOfStep(r) = "decision"
            => UNCHANGED <<files, backups, fileLocks, applied_patches, writes>>]_vars
  /\ [][files' # files \/ backups' # backups
          => \E r \in Requests :
               Steps(r) /\ KindOfStep(r) \in ApplyKinds /\ ModeOfStep(r) = "apply"]_vars

\* C10 witness: a yes verdict for the file, which still holds its .single(
C10_Witness ==
  /\ resp.req.kind = "decision" /\ "decision" \in DOMAIN resp.body
  /\ resp.body.decision = "yes"
  /\ \E f \in DOMAIN files :
       f = resp.body.targetFile /\ runFix(resp.body.fixType, files[f]).changed
  /\ writes = <<>>

\* C16: a request that has read or written the target file took the file's
\* lock first, and while its handler is still running it is inside the body
\* guarded by withFileLock.
C16_NoAccessOutsideLock ==
  /\ \A r \in Requests :
       reqs[r].effects \cap {"read", "write"} # {} => InLock(r)
  /\ resp.req.effects \cap {"read", "write"} # {} => "lock" \in resp.req.effects

\* C15: no two rows of applied_patches carry the same patch_key.
C15_UniquePatchKey ==
  \A i, j \in DOMAIN applied_patches :
    applied_patches[i].patch_key = applied_patches[j].patch_key => i = j

\* C17: a step in which an insert into the event store has failed is the
\* step the handler takes when the insert succeeds: after the fix_attempts,
\* code_proposals and file_snapshots inserts the handler goes on as it does
\* on success (the preview responds 200, the apply backs up and writes); a
\* failed applied_patches insert still gives 200 applied, for the backup and
\* the write already made.
C17_InsertFailureIgnored ==
  [][\A r \in Requests :
       Steps(r) /\ inserted' \notin {"none", "ok"} =>
         CASE reqs[r].pc = "fix_attempts" -> FixAfterAttemptOn(r, "ok")
           [] reqs[r].pc = "prop_proposal" -> ProposalAfterProposalOn(r, "ok")
           [] reqs[r].pc = "prop_snapshot" -> ProposalAfterSnapshotOn(r, "ok")
           [] OTHER ->
                /\ reqs[r].pc \in {"fix_patch", "prop_patch"}
                /\ resp'.id = r /\ resp'.req.status = "200"
                /\ resp'.body = [applied |-> TRUE,
                                 backup |-> reqs[r].loc.backupName]
                /\ {"backup", "write"} \subseteq resp'.req.effects
                /\ UNCHANGED <<files, backups, writes>>]_vars

\* C17 witness: the applied_patches insert of an apply-fix has failed, and
\* the request is answered 200 applied with the file changed
C17_Witness ==
  /\ inserted = "error"
  /\ resp.req.kind = "fix" /\ resp.req.status = "200"
  /\ "applied" \in DOMAIN resp.body
  /\ applied_patches = <<>>
  /\ \E i \in DOMAIN writes : writes[i].ok /\ writes[i].after # writes[i].before

\* the criteria a decision response shows to have failed, in the order the
\* handler tests them
FailedCriteria(body) ==
  LET Row(failed, reason) == IF failed THEN <<reason>> ELSE <<>>
  IN Row(~body.autoApplicable, "Not marked auto_applicable")
     \o Row(body.confidenceScore < 85, "Confidence < threshold")
     \o Row(body.fixType \notin FIX_ALLOWLIST, "fixType not allowlisted")
     \o Row(body.targetFile \notin FILE_ALLOWLIST, "targetFile not allowlisted")

\* C20: in a decision response made from a verified solution, the verdict is
\* "yes" exactly when none of the four criteria failed, which is when the
\* reasons list is empty; a "no" carries as its explanation exactly the reasons
\* of the criteria that failed.
C20_ReasonsExact ==
  resp.req.kind = "decision" /\ "confidenceScore" \in DOMAIN resp.body =>
    LET b == resp.body
        reasons == Reasons(b.confidenceScore, b.autoApplicable, b.fixType,
                           b.targetFile)
    IN /\ (b.decision = "yes") <=> (FailedCriteria(b) = <<>>)
       /\ (b.decision = "yes") <=> (reasons = <<>>)
       /\ b.decision = "no" => b.explanation = FailedCriteria(b)

\* C20 witness: only the confidence is below the threshold, and the verdict is
\* "no" with the confidence reason alone
C20_Witness ==
  /\ resp.req.kind = "decision" /\ "confidenceScore" \in DOMAIN resp.body
  /\ resp.body.autoApplicable /\ resp.body.confidenceScore = 84
  /\ resp.body.fixType \in FIX_ALLOWLIST /\ resp.body.targetFile \in FILE_ALLOWLIST
  /\ resp.body.decision = "no"
  /\ resp.body.explanation = <<"Confidence < threshold">>

\* C21: the writes of the target file have backups under names that differ
\* from one another, the backup of each write still holds the content the file
\* had before that write (no later backup has replaced it), and there are at
\* least as many backups as writes (a backup whose write then failed to open
\* the file is one more).
C21_BackupNamesUnique ==
  /\ \A i, j \in DOMAIN writes :
       writes[i].backup = writes[j].backup => i = j
  /\ \A i \in DOMAIN writes :
       /\ writes[i].backup \in DOMAIN backups
       /\ backups[writes[i].backup] = writes[i].before
  /\ Cardinality(DOMAIN backups) >= Len(writes)

\* C22 (proposals): two proposals that differ in targetFile, zone, intent or
\* trimmed code have different hashes, be it the proposal of a request at work
\* and one written before, or two written; and a request is answered 409
\* only when the proposal it asks for has been written before.
C22_DuplicateOnlyIfApplied ==
  /\ [](\A i \in DOMAIN writes :
          writes[i].kind = "proposal" =>
            /\ \A r \in Requests :
                 reqs[r].kind = "proposal" /\ reqs[r].loc.hash = writes[i].key
                   => Asked(reqs[r]) = writes[i].asked
            /\ \A j \in DOMAIN writes :
                 writes[j].kind = "proposal" /\ writes[j].key = writes[i].key
                   => writes[j].asked = writes[i].asked)
  /\ [][\A r \in Requests :
          resp'.id = r /\ resp'.req.kind = "proposal" /\ resp'.req.status = "409"
            => \E i \in DOMAIN writes :
                 writes[i].kind = "proposal" /\ writes[i].asked = Asked(reqs[r])]_vars

\* a request that has called withFileLock and whose handler has not ended:
\* it sleeps, or it is inside the guarded body
AtLock(r) == reqs[r].pc = "waiting" \/ InLock(r)

\* C23: under fair scheduling, every apply-fix or apply-proposal request that
\* has called withFileLock eventually has taken the lock, sent its response
\* and released the lock; and whenever no request is at work no file is locked.
C23_EveryRequestResponds ==
  /\ \A r \in Requests :
       AtLock(r) ~> /\ resp.id = r
                    /\ "lock" \in resp.req.effects
                    /\ resp.req.status # "threw"
                    /\ resp.req.loc.targetFile \notin fileLocks
  /\ []((\A r \in Requests : reqs[r].pc \in {"idle", "done"}) => fileLocks = {})

\* C23, without the response: under fair scheduling, every request that has
\* called withFileLock eventually has taken the lock, ended (by a response or
\* by an exception) and released the lock; and whenever no request is at work
\* no file is locked.
C23_EveryRequestEnds ==
  /\ \A r \in Requests :
       AtLock(r) ~> /\ resp.id = r
                    /\ "lock" \in resp.req.effects
                    /\ resp.req.loc.targetFile \notin fileLocks
  /\ []((\A r \in Requests : reqs[r].pc \in {"idle", "done"}) => fileLocks = {})

\* ---------------------------------------------------------------- properties of the helpers
\* Array.prototype.join("\n")
RECURSIVE Join(_)
Join(lines) ==
  IF Len(lines) = 0 THEN <<>>
  ELSE IF Len(lines) = 1 THEN lines[1]
  ELSE lines[1] \o <<"\n">> \o Join(Tail(lines))

\* the lines of a text with every line an entry numbers replaced by the
\* entry's after value (a line numbered past the end is added)
ApplyEntries(lines, entries) ==
  LET last == CHOOSE n \in 0..(Len(lines) + Len(entries)) :
                /\ \A k \in DOMAIN entries : entries[k].line <= n
                /\ n >= Len(lines)
                /\ \A m \in 0..(n - 1) :
                     m < Len(lines) \/ \E k \in DOMAIN entries : entries[k].line > m
      Entry(i) == CHOOSE k \in DOMAIN entries : entries[k].line = i
  IN [i \in 1..last |->
        IF \E k \in DOMAIN entries : entries[k].line = i
        THEN entries[Entry(i)].after
        ELSE IF i <= Len(lines) THEN lines[i] ELSE <<>>]

\* C11: the entries of generateSemanticDiff(A, B), applied to the lines of A,
\* give back B.
C11_DiffRoundTrip ==
  call.fn = "generateSemanticDiff" =>
    Join(ApplyEntries(Split(call.args[1]), call.result)) = call.args[2]

\* C12: the updated text is the content up to and with the first marker, a
\* blank line, the trimmed code, a blank line and the rest of the content; and
\* the content "A\n<marker>\nB" with code C gives "A\n<marker>\n\nC\n\nB".
C12_MarkerSplice ==
  call.fn = "splice" =>
    LET original == call.args[1]
        code == Trim(call.args[2])
        marker == INSERTION_ZONES.routes.marker
        first == CHOOSE i \in DOMAIN original :
                   /\ original[i] = marker
                   /\ \A j \in 1..(i - 1) : original[j] # marker
    IN /\ call.result = SubSeq(original, 1, first) \o <<"\n", "\n">> \o code
                          \o <<"\n", "\n">>
                          \o SubSeq(original, first + 1, Len(original))
       /\ original = <<"x", "\n", marker, "\n", "x">> =>
            call.result = <<"x", "\n", marker, "\n", "\n">> \o code
                            \o <<"\n", "\n", "x">>

\* C13: the fixer run on what a first run returned changes nothing and
\* reports changed = false.
C13_FixerIdempotent ==
  call.fn = "runFix" /\ call.run = 2 =>
    /\ ~call.result.changed
    /\ call.result.updated = call.args[2]

\* C13 witness: a second run on a text the first run has changed
C13_Witness ==
  /\ call.fn = "runFix" /\ call.run = 2
  /\ \E i \in DOMAIN call.args[2] : call.args[2][i] = "maybe"
  /\ ~call.result.changed

\* a field as the claim compares it: trimmed and in lower case
Normalised(field) == toLowerCase(Trim(StringOrEmpty(field)))

\* C14: every pair of fields equal to the call's after trimming and
\* lower-casing each field has the signature the call returned.
C14_SignatureInvariance ==
  call.fn = "buildSignature" =>
    \A tool \in SigFields, message \in SigFields :
      /\ Normalised(tool) = Normalised(call.args[1])
      /\ Normalised(message) = Normalised(call.args[2])
      => buildSignature(tool, message) = call.result

\* C14 witness: a tool in upper case after a blank and a message before a
\* blank get the signature of the bare lower-case pair
C14_Witness ==
  /\ call.fn = "buildSignature"
  /\ call.args = << <<" ", "A">>, <<"a", " ">> >>
  /\ call.result = buildSignature(<<"a">>, <<"a">>)

\* a line, an empty text standing for a line past the end
Padded(lines, i) == IF i <= Len(lines) THEN lines[i] ELSE <<>>

\* C18 as stated: there is an entry for a line exactly when the two lines
\* differ with a line past the end of a text taken as empty; every entry
\* carries its line number and the two contents.
C18_DiffEntriesPadded ==
  call.fn = "generateSemanticDiff" =>
    LET o == Split(call.args[1])
        u == Split(call.args[2])
    IN /\ \A i \in 1..Max(Len(o), Len(u)) :
            (\E k \in DOMAIN call.result : call.result[k].line = i)
              <=> Padded(o, i) # Padded(u, i)
       /\ \A k \in DOMAIN call.result :
            /\ call.result[k].line \in 1..Max(Len(o), Len(u))
            /\ call.result[k].before = Padded(o, call.result[k].line)
            /\ call.result[k].after = Padded(u, call.result[k].line)

\* C18 amended: there is an entry for a line exactly when the two lines
\* differ, a line past the end of one text differing from every line of the
\* other, the empty line included; every entry carries its line number and
\* the two contents, empty for a line past the end.
C18_DiffEntries ==
  call.fn = "generateSemanticDiff" =>
    LET o == Split(call.args[1])
        u == Split(call.args[2])
    IN /\ \A i \in 1..Max(Len(o), Len(u)) :
            (\E k \in DOMAIN call.result : call.result[k].line = i)
              <=> (i > Len(o) \/ i > Len(u) \/ o[i] # u[i])
       /\ \A k \in DOMAIN call.result :
            /\ call.result[k].line \in 1..Max(Len(o), Len(u))
            /\ call.result[k].before = Padded(o, call.result[k].line)
            /\ call.result[k].after = Padded(u, call.result[k].line)

\* C18 witness: an entry for a line that is empty in one text and past the
\* end of the other
C18_Witness ==
  /\ call.fn = "generateSemanticDiff"
  /\ \E k \in DOMAIN call.result :
       /\ call.result[k].before = <<>> /\ call.result[k].after = <<>>
       /\ call.result[k].line > Len(Split(call.args[1]))

\* C19: the entries are in strictly ascending line order, and there is none
\* exactly when the two texts are equal.
C19_DiffOrderedAndEmptyIffEqual ==
  call.fn = "generateSemanticDiff" =>
    /\ \A k \in 1..(Len(call.result) - 1) :
         call.result[k].line < call.result[k + 1].line
    /\ (call.result = <<>>) <=> (call.args[1] = call.args[2])

\* C19 witness: a diff of two entries, and one of two texts that differ in a
\* final line break alone
C19_Witness ==
  /\ call.fn = "generateSemanticDiff"
  /\ \/ /\ Len(call.result) = 2
        /\ Len(Split(call.args[1])) = 3
     \/ /\ call.args = << <<"a">>, <<"a", "\n">> >>
        /\ Len(call.result) = 1

\* C22 (signatures): every pair of fields that differs from the call's after
\* trimming and lower-casing each field has another signature than the one
\* the call returned (the digest standing for the string it is taken of).
C22_SignaturePreHash ==
  call.fn = "buildSignature" =>
    \A tool \in SigFields \cup SepFields, message \in SigFields \cup SepFields :
      \/ Normalised(tool) # Normalised(call.args[1])
      \/ Normalised(message) # Normalised(call.args[2])
      => buildSignature(tool, message) # call.result

====
